---- MODULE Spec2Model ----
(***************************************************************************)
(* Model of the crawl-progress streamer (crawlStatusWS and its controller), *)
(* of the v0 scrape dispatch (scrapeController / scrapeHelper), of the     *)
(* credit gate (supaCheckTeamCredits behind withAuth) and of the v1 crawl  *)
(* kickoff (crawlController) of apps/api.                                  *)
(*                                                                         *)
(* A streamer session is two cooperating tasks on one JavaScript event     *)
(* loop: the body of crawlStatusWS (the catch-up path) and the closure     *)
(* `loop` run by setTimeout (the poll loop).  Every `await` is a           *)
(* suspension point; the code between two awaits is one atomic action.     *)
(* The crawl store, the queue and the client are the environment.          *)
(***************************************************************************)
EXTENDS Integers, Sequences, FiniteSets, TLC

\* Number of child jobs of the crawl a session is followed on; the larger
\* crawl of SpecLargerCrawl has one more.
MaxJobs == 1

Jobs == 1..(MaxJobs + 1)

\* The team the session authenticated as, and another one.
AuthTeam == "t1"
OtherTeam == "t2"

VARIABLES
  \* ---- environment: crawl store, queue, client
  crawlSize,    \* number of child jobs the crawl ends up with
  crawl,        \* what getCrawl finds: [exists, team_id, cancelled]
  crawlJobs,    \* child-job id set of the crawl
  jobState,     \* queue state of every job id
  throttled,    \* concurrency-limited set of the team
  storeDone,    \* done-job ordered list of the store
  \* ---- the socket
  readyState,   \* ws.readyState: 1 OPEN, 2 CLOSING, 3 CLOSED
  frames,       \* frames put on the socket, in order
  closeCalls,   \* calls of close(ws, code, msg), in order, with their effect
  \* ---- crawlStatusWS locals shared by the two tasks
  doneJobIDs,   \* let doneJobIDs: string[]
  finished,     \* let finished
  \* ---- catch-up path
  pcC,          \* position of crawlStatusWSController / crawlStatusWS
  cuDoneRead,   \* reply of getDoneJobsOrdered, until the catchup frame is evaluated
  cuJobIDs,     \* jobIDs of the catch-up path
  cuStatuses,   \* jobStatuses of the catch-up path
  cuThrottled,  \* throttledJobsSet
  cuStatus,     \* status
  cuTotal,      \* jobIDs.length as evaluated for the catchup frame
  cuCompleted,  \* doneJobIDs.length as evaluated for the catchup frame
  \* ---- poll loop
  pcL,          \* position of loop
  lpNotDone,    \* notDoneJobIDs
  lpNewlyDone,  \* newlyDoneJobIDs
  lpSeen,       \* doneJobIDs.length as the last iteration of a live loop read it
  \* ---- history
  dropped,      \* some send() found the socket not open and sent nothing
  jobsRead,     \* getCrawlJobs has been called
  \* ---- one v0 scrape request (scrapeController)
  sReq,         \* the request and its team: [authOk, forceZDR, llm, schemaOk, url]
  sPc,          \* position of scrapeController / scrapeHelper
  sEvents,      \* calls the request made, in program order
  sStatus,      \* res.status(...) of the response, 0 before it is sent
  sError,       \* error text of the response body
  sBill,        \* promise of billTeam: "none", "pending", "resolved", "rejected"
  sCredits,     \* credits passed to billTeam
  sSuccess,     \* success field of the response body: "absent", "true", "false"
  sAdmitted,    \* credits asked of checkTeamCredits in an admission
  sJobId,       \* const jobId = uuidv4(), "" before
  sEnqueues,    \* jobs handed to addScrapeJob, in order
  sQueued,      \* the job is in the scrape queue, not removed by the request
  sWait,        \* how waitForJob settled, "" before
  \* ---- one call of supaCheckTeamCredits(chunk, team_id, credits)
  cTeam,        \* team_id, a sequence of characters
  cChunk,       \* chunk: [present, used, hasTotal, total, remaining, is_extract]
  cCredits,     \* credits
  cCache,       \* value under team_auto_recharge_<team_id>: [present, auto_recharge, threshold]
  cDb,          \* row of the team in table teams: [present, auto_recharge, threshold]
  cPc,          \* position of supaCheckTeamCredits
  cEnabled,     \* isAutoRechargeEnabled
  cThreshold,   \* autoRechargeThreshold
  cResult,      \* returned value: [success, unlimited, remaining, message]
  cNotes,       \* notification types passed to sendNotification, in order
  cCfgRead,     \* the auto-recharge configuration was read
  cCharged,     \* autoCharge was called
  \* ---- the process of withAuth: calls of checkTeamCredits and billTeam
  aEnv,         \* process.env: [USE_DB_AUTHENTICATION, ALLOWED_KEYS]
  warningCount, \* let warningCount
  aWarned,      \* calls of logger.warn made by withAuth
  aCalls,       \* calls of the wrapped functions so far
  aReal,        \* calls of originalFunction so far
  aOp,          \* the last call: "none", "check", "bill"
  aResult,      \* what the last call returned: [success, message, unlimited, threw]
  \* ---- one v1 crawl request (crawlController)
  kReq,         \* the request, its team flags and its account
  kPc,          \* position of crawlController
  kSc,          \* const sc: StoredCrawl
  kRobots,      \* how getRobotsTxt and getRobotsCrawlDelay settled
  kStored,      \* the crawl record of the crawl store
  kKickoffs,    \* jobs put on the queue by _addScrapeJobToBullMQ, in order
  kLogged,      \* logCrawl was called
  kStatus,      \* res.status(...) of the response, 0 before it is sent
  kBody         \* body of the response: [success, error, id]

envVars == <<crawlSize, crawl, crawlJobs, jobState, throttled, storeDone>>
wsVars == <<readyState, frames, closeCalls>>
cuVars == <<pcC, cuDoneRead, cuJobIDs, cuStatuses, cuThrottled, cuStatus, cuTotal, cuCompleted>>
lpVars == <<pcL, lpNotDone, lpNewlyDone, lpSeen>>
streamerVars == <<envVars, wsVars, doneJobIDs, finished, cuVars, lpVars, dropped, jobsRead>>
scrapeVars ==
  <<sReq, sPc, sEvents, sStatus, sError, sBill, sCredits, sSuccess, sAdmitted, sJobId,
    sEnqueues, sQueued, sWait>>
creditVars ==
  <<cTeam, cChunk, cCredits, cCache, cDb, cPc, cEnabled, cThreshold, cResult, cNotes,
    cCfgRead, cCharged>>
authVars == <<aEnv, warningCount, aWarned, aCalls, aReal, aOp, aResult>>
crawlVars == <<kReq, kPc, kSc, kRobots, kStored, kKickoffs, kLogged, kStatus, kBody>>
vars == <<streamerVars, scrapeVars, creditVars, authVars, crawlVars>>

----------------------------------------------------------------------------
\* Helpers

RECURSIVE SeqOfSet(_)
\* The array a store or queue call returns for a set: ascending ids.
SeqOfSet(S) ==
  IF S = {} THEN <<>>
  ELSE LET m == CHOOSE x \in S : \A y \in S : x <= y
       IN <<m>> \o SeqOfSet(S \ {m})

Range(s) == {s[i] : i \in 1..Len(s)}

RECURSIVE FilterSeq(_, _)
\* s.filter(x => x \in S)
FilterSeq(s, S) ==
  IF s = <<>> THEN <<>>
  ELSE (IF Head(s) \in S THEN <<Head(s)>> ELSE <<>>) \o FilterSeq(Tail(s), S)

NoStatuses == [j \in {} |-> "unknown"]

Frame(type, job, status, total, completed) ==
  [type |-> type, job |-> job, status |-> status, total |-> total, completed |-> completed,
   creditsUsed |-> total]

CatchupFrame(status, total, completed) == Frame("catchup", 0, status, total, completed)
DocumentFrame(j) == Frame("document", j, "", 0, 0)

----------------------------------------------------------------------------
\* send / close

SendUnguarded(rs) == TRUE
\* send: if (ws.readyState === 1)
SendGuard(rs) == rs = 1

\* send(ws, msg) for each msg of msgs, in order
SendFrames(rs, fr, msgs) == IF SendGuard(rs) THEN fr \o msgs ELSE fr

CloseUnguarded(rs) == TRUE
\* close: if (ws.readyState <= 1)
CloseGuard(rs) == rs <= 1

\* close(ws, code, msg)
close(code, msg) ==
  /\ readyState' = IF CloseGuard(readyState) THEN 2 ELSE readyState
  /\ closeCalls' = Append(closeCalls,
                     [code |-> code, msg |-> msg, eff |-> CloseGuard(readyState)])

----------------------------------------------------------------------------
\* Initial state: the socket has just been accepted; the store holds a crawl
\* of either team, cancelled or not, or no crawl under the requested id.

NoCrawl == [exists |-> FALSE, team_id |-> "", cancelled |-> FALSE]

CrawlValues ==
  {NoCrawl} \cup [exists : {TRUE}, team_id : {AuthTeam, OtherTeam}, cancelled : BOOLEAN]

StreamerInit(size, crawls) ==
  /\ crawlSize = size
  /\ crawl \in crawls
  /\ crawlJobs = {}
  /\ jobState = [j \in Jobs |-> "unknown"]
  /\ throttled = {}
  /\ storeDone = <<>>
  /\ readyState = 1
  /\ frames = <<>>
  /\ closeCalls = <<>>
  /\ doneJobIDs = <<>>
  /\ finished = FALSE
  /\ pcC = "auth"
  /\ cuDoneRead = <<>>
  /\ cuJobIDs = <<>>
  /\ cuStatuses = NoStatuses
  /\ cuThrottled = {}
  /\ cuStatus = "none"
  /\ cuTotal = 0
  /\ cuCompleted = 0
  /\ pcL = "none"
  /\ lpNotDone = <<>>
  /\ lpNewlyDone = <<>>
  /\ lpSeen = 0
  /\ dropped = FALSE
  /\ jobsRead = FALSE

----------------------------------------------------------------------------
\* Environment: the crawl's workers, the queue and the client.

sessionVars == <<wsVars, doneJobIDs, finished, cuVars, lpVars, dropped, jobsRead>>

\* add_crawl_job: the next child job joins the set, throttled or not; the
\* queue does not know it yet.
AddCrawlJob(thr) ==
  /\ Cardinality(crawlJobs) < crawlSize
  /\ LET j == Cardinality(crawlJobs) + 1 IN
       /\ crawlJobs' = crawlJobs \cup {j}
       /\ throttled' = IF thr THEN throttled \cup {j} ELSE throttled
  /\ UNCHANGED <<crawlSize, crawl, jobState, storeDone, sessionVars>>

\* The job enters the queue (leaving the concurrency-limited set).
StartJob(j) ==
  /\ j \in crawlJobs
  /\ jobState[j] = "unknown"
  /\ jobState' = [jobState EXCEPT ![j] = "active"]
  /\ throttled' = throttled \ {j}
  /\ UNCHANGED <<crawlSize, crawl, crawlJobs, storeDone, sessionVars>>

\* The worker ends the job: completed (with a return value) or failed.
EndJob(j, st) ==
  /\ j \in crawlJobs
  /\ jobState[j] = "active"
  /\ jobState' = [jobState EXCEPT ![j] = st]
  /\ UNCHANGED <<crawlSize, crawl, crawlJobs, throttled, storeDone, sessionVars>>

\* push_done: a terminal job is appended to the done-job ordered list.
PushDone(j) ==
  /\ j \in crawlJobs
  /\ jobState[j] \in {"completed", "failed"}
  /\ j \notin Range(storeDone)
  /\ storeDone' = Append(storeDone, j)
  /\ UNCHANGED <<crawlSize, crawl, crawlJobs, jobState, throttled, sessionVars>>

\* The client goes away while the socket is open: the socket is CLOSED.
ClientDisconnect ==
  /\ readyState = 1
  /\ readyState' = 3
  /\ UNCHANGED <<envVars, frames, closeCalls, doneJobIDs, finished, cuVars, lpVars,
                 dropped, jobsRead>>

\* job.returnvalue: only a completed job has one.
returnvalue(j) == jobState[j] = "completed"

----------------------------------------------------------------------------
\* Catch-up path: crawlStatusWSController, then crawlStatusWS.

lpAndHist == <<lpVars, dropped, jobsRead>>
cuLocals == <<cuDoneRead, cuJobIDs, cuStatuses, cuThrottled, cuStatus, cuTotal, cuCompleted>>

\* authenticateUser resolved: success, or close 3000.
Authenticate(ok) ==
  /\ pcC = "auth"
  /\ IF ok
       THEN /\ pcC' = "getCrawl"
            /\ UNCHANGED wsVars
       ELSE /\ pcC' = "unauth"
            /\ close(3000, "error")
            /\ UNCHANGED frames
  /\ UNCHANGED <<envVars, doneJobIDs, finished, cuLocals, lpAndHist>>

TeamAlwaysMatches(sc, team) == TRUE
\* sc.team_id !== req.auth.team_id
TeamMatches(sc, team) == sc.team_id = team

\* getCrawl resolved: the two checks, the locals, setTimeout(loop, 1000) and
\* the call of getDoneJobsOrdered.
GetCrawl ==
  /\ pcC = "getCrawl"
  /\ IF ~crawl.exists
       THEN /\ pcC' = "notfound"
            /\ close(1008, "Job not found")
            /\ UNCHANGED <<frames, pcL>>
       ELSE IF ~TeamMatches(crawl, AuthTeam)
       THEN /\ pcC' = "forbidden"
            /\ close(3003, "Forbidden")
            /\ UNCHANGED <<frames, pcL>>
       ELSE /\ pcC' = "readDone"
            /\ pcL' = "timer"
            /\ UNCHANGED wsVars
  /\ doneJobIDs' = <<>>
  /\ finished' = FALSE
  /\ UNCHANGED <<envVars, cuLocals, lpNotDone, lpNewlyDone, lpSeen, dropped, jobsRead>>

\* The store serves getDoneJobsOrdered.
ReadDone ==
  /\ pcC = "readDone"
  /\ cuDoneRead' = storeDone
  /\ pcC' = "assignDone"
  /\ UNCHANGED <<envVars, wsVars, doneJobIDs, finished, cuJobIDs, cuStatuses,
                 cuThrottled, cuStatus, cuTotal, cuCompleted, lpAndHist>>

\* doneJobIDs = await getDoneJobsOrdered(...): the reply replaces the list;
\* getCrawlJobs is called.
AssignDone ==
  /\ pcC = "assignDone"
  /\ doneJobIDs' = cuDoneRead
  /\ pcC' = "getCrawlJobs"
  /\ jobsRead' = TRUE
  /\ UNCHANGED <<envVars, wsVars, finished, cuDoneRead, cuJobIDs, cuStatuses, cuThrottled,
                 cuStatus, cuTotal, cuCompleted, lpVars, dropped>>

\* let jobIDs = await getCrawlJobs(...)
CatchupJobs ==
  /\ pcC = "getCrawlJobs"
  /\ cuJobIDs' = SeqOfSet(crawlJobs)
  /\ pcC' = "getJobStates"
  /\ UNCHANGED <<envVars, wsVars, doneJobIDs, finished, cuDoneRead, cuStatuses,
                 cuThrottled, cuStatus, cuTotal, cuCompleted, lpAndHist>>

\* let jobStatuses = await Promise.all(jobIDs.map(queue.getJobState))
CatchupStates ==
  /\ pcC = "getJobStates"
  /\ cuStatuses' = [j \in Range(cuJobIDs) |-> jobState[j]]
  /\ pcC' = "getThrottled"
  /\ UNCHANGED <<envVars, wsVars, doneJobIDs, finished, cuDoneRead, cuJobIDs,
                 cuThrottled, cuStatus, cuTotal, cuCompleted, lpAndHist>>

\* validJobStatuses: the state each included job is reported with.
ValidStatus(j, statuses, thr) == IF j \in thr THEN "prioritized" ELSE statuses[j]

\* validJobIDs: throttled, or neither failed nor unknown.
ValidJobIDs(ids, statuses, thr) ==
  FilterSeq(ids, {j \in Range(ids) : j \in thr \/ statuses[j] \notin {"failed", "unknown"}})

StatusIgnoringThrottled(cancelled, ids, statuses, thr) ==
  IF cancelled THEN "cancelled"
  ELSE IF \A j \in Range(ids) \ thr : statuses[j] = "completed"
  THEN "completed" ELSE "scraping"
\* const status = sc.cancelled ? "cancelled" : every completed ? "completed" : "scraping"
ComputeStatus(cancelled, ids, statuses, thr) ==
  IF cancelled THEN "cancelled"
  ELSE IF \A j \in Range(ValidJobIDs(ids, statuses, thr)) :
            ValidStatus(j, statuses, thr) = "completed"
  THEN "completed" ELSE "scraping"

\* throttledJobsSet resolved: classification, status, jobIDs = validJobIDs,
\* and the call of getJobs(doneJobIDs).
CatchupClassify ==
  /\ pcC = "getThrottled"
  /\ cuThrottled' = throttled
  /\ cuStatus' = ComputeStatus(crawl.cancelled, cuJobIDs, cuStatuses, throttled)
  /\ pcC' = "getDoneJobs"
  /\ UNCHANGED <<envVars, wsVars, doneJobIDs, finished, cuDoneRead, cuJobIDs,
                 cuStatuses, cuTotal, cuCompleted, lpAndHist>>

\* getJobs resolved: the catchup frame's total and completed are evaluated,
\* then getCrawlExpiry is awaited inside the frame literal.
CatchupData ==
  /\ pcC = "getDoneJobs"
  /\ cuTotal' = Len(ValidJobIDs(cuJobIDs, cuStatuses, cuThrottled))
  /\ cuCompleted' = Len(doneJobIDs)
  /\ cuDoneRead' = <<>>
  /\ cuJobIDs' = <<>>
  /\ cuStatuses' = NoStatuses
  /\ cuThrottled' = {}
  /\ pcC' = "getExpiry"
  /\ UNCHANGED <<envVars, wsVars, doneJobIDs, finished, cuStatus, lpAndHist>>

\* getCrawlExpiry resolved: send(ws, catchup) is called and awaited.
SendCatchup ==
  /\ pcC = "getExpiry"
  /\ frames' = SendFrames(readyState, frames, <<CatchupFrame(cuStatus, cuTotal, cuCompleted)>>)
  /\ dropped' = (dropped \/ ~SendGuard(readyState))
  /\ pcC' = "sent"
  /\ UNCHANGED <<envVars, readyState, closeCalls, doneJobIDs, finished, cuLocals,
                 lpVars, jobsRead>>

\* if (status !== "scraping") { finished = true; return close(1000, done) }
CatchupEnd ==
  /\ pcC = "sent"
  /\ pcC' = "done"
  /\ IF cuStatus # "scraping"
       THEN /\ finished' = TRUE
            /\ close(1000, "done")
       ELSE UNCHANGED <<finished, readyState, closeCalls>>
  /\ UNCHANGED <<envVars, frames, doneJobIDs, cuLocals, lpAndHist>>

\* Positions at which the catch-up path waits for a promise that can reject.
CatchupAwaits ==
  {"auth", "getCrawl", "readDone", "assignDone", "getCrawlJobs", "getJobStates",
   "getThrottled", "getDoneJobs", "getExpiry", "sent"}

\* The awaited promise rejects: the controller's catch closes with 1011.
CatchupThrow ==
  /\ pcC \in CatchupAwaits
  /\ pcC' = "failed"
  /\ close(1011, "error")
  /\ cuDoneRead' = <<>>
  /\ cuJobIDs' = <<>>
  /\ cuStatuses' = NoStatuses
  /\ cuThrottled' = {}
  /\ UNCHANGED <<envVars, frames, doneJobIDs, finished, cuStatus, cuTotal, cuCompleted,
                 lpAndHist>>

----------------------------------------------------------------------------
\* Poll loop: the closure `loop`, run by setTimeout.

cuAndShared == <<cuVars, finished>>

\* The timer fires: if (finished) return; otherwise getCrawlJobs is called.
LoopStart ==
  /\ pcL = "timer"
  /\ IF finished
       THEN /\ pcL' = "ended"
            /\ UNCHANGED jobsRead
       ELSE /\ pcL' = "getCrawlJobs"
            /\ jobsRead' = TRUE
  /\ UNCHANGED <<envVars, wsVars, doneJobIDs, cuAndShared, lpNotDone, lpNewlyDone, lpSeen,
                 dropped>>

\* if (jobIDs.length === doneJobIDs.length)
LengthsEqual(jobIDs, done) == Len(jobIDs) = Len(done)

\* jobIDs.filter((x) => !doneJobIDs.includes(x))
NotDoneJobIDs(jobIDs, done) == FilterSeq(jobIDs, Range(jobIDs) \ Range(done))

\* getCrawlJobs resolved: close with done when the lengths agree, otherwise
\* notDoneJobIDs and the getJobState calls.
LoopJobs ==
  /\ pcL = "getCrawlJobs"
  /\ LET jobIDs == SeqOfSet(crawlJobs) IN
       IF LengthsEqual(jobIDs, doneJobIDs)
         THEN /\ pcL' = "ended"
              /\ close(1000, "done")
              /\ lpSeen' = 0
              /\ UNCHANGED lpNotDone
         ELSE /\ pcL' = "getJobStates"
              /\ lpNotDone' = NotDoneJobIDs(jobIDs, doneJobIDs)
              /\ lpSeen' = Len(doneJobIDs)
              /\ UNCHANGED <<readyState, closeCalls>>
  /\ UNCHANGED <<envVars, frames, doneJobIDs, cuAndShared, lpNewlyDone, dropped, jobsRead>>

\* jobStatuses.filter(completed or failed).map(id)
NewlyDoneJobIDs(notDone, states) ==
  FilterSeq(notDone, {j \in Range(notDone) : states[j] \in {"completed", "failed"}})

\* The job states resolved: newlyDoneJobIDs and the getJob calls.
LoopStates ==
  /\ pcL = "getJobStates"
  /\ lpNewlyDone' = NewlyDoneJobIDs(lpNotDone, jobState)
  /\ lpNotDone' = <<>>
  /\ pcL' = "getJob"
  /\ UNCHANGED <<envVars, wsVars, doneJobIDs, cuAndShared, lpSeen, dropped, jobsRead>>

RECURSIVE DocumentFrames(_)
\* for (const job of newlyDoneJobs) if (job.returnvalue) send(document)
DocumentFrames(ids) ==
  IF ids = <<>> THEN <<>>
  ELSE (IF returnvalue(Head(ids)) THEN <<DocumentFrame(Head(ids))>> ELSE <<>>)
       \o DocumentFrames(Tail(ids))

\* doneJobIDs.push(...newlyDoneJobIDs)
PushDoneJobIDs(done, newly) == done \o newly

\* The jobs resolved: the document frames, the push, setTimeout(loop, 1000).
LoopSend ==
  /\ pcL = "getJob"
  /\ frames' = SendFrames(readyState, frames, DocumentFrames(lpNewlyDone))
  /\ dropped' = (dropped \/ (DocumentFrames(lpNewlyDone) # <<>> /\ ~SendGuard(readyState)))
  /\ doneJobIDs' = PushDoneJobIDs(doneJobIDs, lpNewlyDone)
  /\ lpNewlyDone' = <<>>
  /\ pcL' = "timer"
  /\ UNCHANGED <<envVars, readyState, closeCalls, cuAndShared, lpNotDone, lpSeen, jobsRead>>

\* An awaited call of the iteration rejects: the rejection is unhandled,
\* nothing is closed and nothing is scheduled.
LoopThrow ==
  /\ pcL \in {"getCrawlJobs", "getJobStates", "getJob"}
  /\ pcL' = "crashed"
  /\ lpNotDone' = <<>>
  /\ lpNewlyDone' = <<>>
  /\ lpSeen' = 0
  /\ UNCHANGED <<envVars, wsVars, doneJobIDs, cuAndShared, dropped, jobsRead>>

----------------------------------------------------------------------------

Environment ==
  \/ \E thr \in BOOLEAN : AddCrawlJob(thr)
  \/ \E j \in Jobs : StartJob(j)
  \/ \E j \in Jobs : \E st \in {"completed", "failed"} : EndJob(j, st)
  \/ \E j \in Jobs : PushDone(j)
  \/ ClientDisconnect

Catchup ==
  \/ \E ok \in BOOLEAN : Authenticate(ok)
  \/ GetCrawl
  \/ ReadDone
  \/ AssignDone
  \/ CatchupJobs
  \/ CatchupStates
  \/ CatchupClassify
  \/ CatchupData
  \/ SendCatchup
  \/ CatchupEnd
  \/ CatchupThrow

Loop ==
  \/ LoopStart
  \/ LoopJobs
  \/ LoopStates
  \/ LoopSend
  \/ LoopThrow

StreamerNext == Environment \/ Catchup \/ Loop

\* No scrape request is under way.
ScrapeIdle ==
  /\ sReq = [authOk |-> FALSE, forceZDR |-> FALSE, llm |-> FALSE, schemaOk |-> FALSE,
             url |-> "ok"]
  /\ sPc = "idle"
  /\ sEvents = <<>>
  /\ sStatus = 0
  /\ sError = ""
  /\ sBill = "none"
  /\ sCredits = 0
  /\ sSuccess = "absent"
  /\ sAdmitted = 0
  /\ sJobId = ""
  /\ sEnqueues = <<>>
  /\ sQueued = FALSE
  /\ sWait = ""

\* chunk === null, in the shape of a chunk
NoChunk ==
  [present |-> FALSE, used |-> 0, hasTotal |-> FALSE, total |-> 0, remaining |-> 0,
   is_extract |-> FALSE]

\* No auto-recharge configuration: nothing cached, no row
NoConfig == [present |-> FALSE, auto_recharge |-> FALSE, threshold |-> 0]

\* Nothing returned yet
NoResult == [success |-> FALSE, unlimited |-> FALSE, remaining |-> 0, message |-> ""]

\* No credit check is under way.
CreditIdle ==
  /\ cTeam = <<>>
  /\ cChunk = NoChunk
  /\ cCredits = 0
  /\ cCache = NoConfig
  /\ cDb = NoConfig
  /\ cPc = "idle"
  /\ cEnabled = FALSE
  /\ cThreshold = 0
  /\ cResult = NoResult
  /\ cNotes = <<>>
  /\ cCfgRead = FALSE
  /\ cCharged = FALSE

\* Nothing returned yet by a wrapped function
NoReturn == [success |-> FALSE, message |-> "", unlimited |-> FALSE, threw |-> FALSE]

\* No wrapped function has been called in the process.
AuthIdle ==
  /\ aEnv = [USE_DB_AUTHENTICATION |-> "", ALLOWED_KEYS |-> <<>>]
  /\ warningCount = 0
  /\ aWarned = 0
  /\ aCalls = 0
  /\ aReal = 0
  /\ aOp = "none"
  /\ aResult = NoReturn

\* No StoredCrawl; an optional number is the empty set or a singleton.
NoSc ==
  [exists |-> FALSE, id |-> "", limit |-> 0, maxConcurrency |-> {}, delay |-> {},
   zeroDataRetention |-> FALSE, robots |-> ""]

\* getRobotsTxt has not settled
NoRobots == [settled |-> FALSE, failed |-> FALSE, delay |-> {}]

\* No response body yet
NoBody == [success |-> FALSE, error |-> "", id |-> ""]

\* No crawl request is under way.
CrawlIdle ==
  /\ kReq = [zeroDataRetention |-> FALSE, allowZDR |-> FALSE, forceZDR |-> FALSE,
             includePaths |-> <<>>, excludePaths |-> <<>>, limit |-> 0,
             maxConcurrency |-> {}, delay |-> {}, useDb |-> FALSE, remaining |-> {},
             concurrency |-> {}]
  /\ kPc = "idle"
  /\ kSc = NoSc
  /\ kRobots = NoRobots
  /\ kStored = NoSc
  /\ kKickoffs = <<>>
  /\ kLogged = FALSE
  /\ kStatus = 0
  /\ kBody = NoBody

OthersIdle == CreditIdle /\ AuthIdle /\ CrawlIdle

Init == StreamerInit(MaxJobs, CrawlValues) /\ ScrapeIdle /\ OthersIdle

Next == StreamerNext /\ UNCHANGED <<scrapeVars, creditVars, authVars, crawlVars>>

\* One streamer session on one crawl.
Spec == Init /\ [][Next]_vars

\* The same session on a crawl with one more child job.
InitLargerCrawl == StreamerInit(MaxJobs + 1, CrawlValues) /\ ScrapeIdle /\ OthersIdle

SpecLargerCrawl == InitLargerCrawl /\ [][Next]_vars

----------------------------------------------------------------------------
\* Observations on the socket

IsEffective(c) == c.eff
IsDone(c) == c.code = 1000 /\ c.msg = "done"

\* The closes that took effect on the socket.
EffectiveCloses == SelectSeq(closeCalls, IsEffective)
DoneCloses == SelectSeq(EffectiveCloses, IsDone)

DocumentCount(j) ==
  Cardinality({i \in 1..Len(frames) : frames[i].type = "document" /\ frames[i].job = j})

CatchupSent == \E i \in 1..Len(frames) : frames[i].type = "catchup"

\* The session passed the crawl lookup and the team check.
Passed == pcL # "none"

----------------------------------------------------------------------------
\* C1: in a session that passed the lookup and the team check, the catchup
\* frame is the first frame on the socket; no document frame and no done
\* close comes before it.
C1_CatchupFirst ==
  Passed =>
    /\ frames # <<>> => frames[1].type = "catchup"
    /\ DoneCloses # <<>> => CatchupSent

\* C2: a document frame for one child job is sent at most once in a session.
C2_DocumentAtMostOnce == \A j \in Jobs : DocumentCount(j) <= 1

\* The session ended normally: the catch-up path returned, the poll loop
\* returned, nothing threw and the client is still there.
EndedNormally == pcC = "done" /\ pcL = "ended" /\ readyState # 3

\* C3: at most one close carrying done takes effect on the socket, whichever
\* task reaches its close first, and a session that ends normally has one.
C3_DoneExactlyOnce ==
  /\ Len(DoneCloses) <= 1
  /\ Len(EffectiveCloses) <= 1
  /\ EndedNormally => Len(DoneCloses) = 1

\* Both tasks called close with done and one of the two took effect.
C3_Witness ==
  /\ Len(closeCalls) = 2
  /\ IsDone(closeCalls[1]) /\ IsDone(closeCalls[2])
  /\ Len(DoneCloses) = 1
  /\ EndedNormally

\* C4: once a close with a done or error message took effect, no frame is
\* put on the socket, also not by a task that was suspended at the close.
C4_NoFrameAfterClose == [][EffectiveCloses # <<>> => frames' = frames]_vars

\* A send was attempted after the server's close and put nothing on the socket.
C4_Witness == readyState = 2 /\ dropped /\ EffectiveCloses # <<>>

\* C5: in a session whose catch-up status was scraping, the close with done
\* comes after every child job has become completed or failed (and so after
\* the document frame of each job that ended with a return value).
C5_DoneAfterAllJobs ==
  [][(pcC = "done" /\ cuStatus = "scraping" /\ DoneCloses = <<>> /\ DoneCloses' # <<>>)
       => \A j \in crawlJobs : jobState[j] \in {"completed", "failed"}]_vars

\* C6: no poll iteration that starts after the client disconnected calls the
\* crawl store.
C6_LoopStopsOnDisconnect ==
  [][(readyState = 3 /\ pcL = "timer") => pcL' # "getCrawlJobs"]_vars

\* What the claim calls terminal, on the values the catch-up path read.
ClaimedTerminal ==
  crawl.cancelled \/ \A j \in Range(cuJobIDs) \ cuThrottled : cuStatuses[j] = "completed"

\* What the code treats as terminal, on the values the catch-up path read.
CodeTerminal ==
  \/ crawl.cancelled
  \/ /\ Range(cuJobIDs) \cap cuThrottled = {}
     /\ \A j \in Range(cuJobIDs) : cuStatuses[j] \in {"completed", "failed", "unknown"}

\* C7 as claimed: the status is other than scraping iff the crawl is cancelled
\* or every non-throttled child job is completed.
C7_TerminalAsClaimed ==
  pcC = "getDoneJobs" => (cuStatus # "scraping" <=> ClaimedTerminal)

\* C7 amended: the status is other than scraping iff the crawl is cancelled,
\* or no child job is throttled and every child job whose queue state is
\* neither failed nor unknown is completed; exactly then the catch-up path
\* sets finished and calls close(1000, done).
C7_Terminal ==
  /\ pcC = "getDoneJobs" => (cuStatus # "scraping" <=> CodeTerminal)
  /\ pcC = "done" =>
       /\ finished <=> cuStatus # "scraping"
       /\ finished => \E i \in 1..Len(closeCalls) : IsDone(closeCalls[i])
  /\ pcC # "done" => ~finished

\* The catch-up path found the crawl terminal although a child job had failed.
C7_Witness ==
  /\ pcC = "getDoneJobs"
  /\ cuStatus = "completed"
  /\ \E j \in Range(cuJobIDs) : cuStatuses[j] = "failed"

\* C8: an unresolved crawl id closes with 1008 "Job not found", a crawl of
\* another team with 3003 "Forbidden"; then no frame is sent, no poll loop is
\* scheduled and the child-job set is never read.
C8_LookupRejects ==
  /\ pcC = "notfound" =>
       /\ ~crawl.exists
       /\ Len(closeCalls) = 1
       /\ closeCalls[1].code = 1008 /\ closeCalls[1].msg = "Job not found"
       /\ closeCalls[1].eff \/ readyState = 3
  /\ pcC = "forbidden" =>
       /\ crawl.exists /\ crawl.team_id # AuthTeam
       /\ Len(closeCalls) = 1
       /\ closeCalls[1].code = 3003 /\ closeCalls[1].msg = "Forbidden"
       /\ closeCalls[1].eff \/ readyState = 3
  /\ (~crawl.exists \/ crawl.team_id # AuthTeam) =>
       /\ frames = <<>>
       /\ pcL = "none"
       /\ ~jobsRead
       /\ pcC \in {"auth", "getCrawl", "unauth", "failed", "notfound", "forbidden"}

\* A crawl of another team was refused with an effective close.
C8_Witness ==
  /\ pcC = "forbidden"
  /\ readyState = 2
  /\ EffectiveCloses # <<>>

\* C9: every unexpected error of a session, in authentication, in the
\* catch-up computation or in a poll iteration, ends in close(1011, error).
C9_ErrorCloses1011 ==
  (pcC = "failed" \/ pcL = "crashed") =>
    \E i \in 1..Len(closeCalls) : closeCalls[i].code = 1011

----------------------------------------------------------------------------
\* The v0 scrape dispatch: scrapeController and scrapeHelper, one request.
\* sEvents lists the calls in program order, also those of one synchronous
\* block, which is one action here.

Urls == {"ok", "blocked", "invalid"}

ScrapeRequests ==
  [authOk : BOOLEAN, forceZDR : BOOLEAN, llm : BOOLEAN, schemaOk : BOOLEAN, url : Urls]

ScrapeInit ==
  /\ sReq \in ScrapeRequests
  /\ sPc = "auth"
  /\ sEvents = <<>>
  /\ sStatus = 0
  /\ sError = ""
  /\ sBill = "none"
  /\ sCredits = 0
  /\ sSuccess = "absent"
  /\ sAdmitted = 0
  /\ sJobId = ""
  /\ sEnqueues = <<>>
  /\ sQueued = FALSE
  /\ sWait = ""

\* return res.status(code).json({ error })
Respond(code, err) ==
  /\ sStatus' = code
  /\ sError' = err
  /\ sEvents' = Append(sEvents, "respond")
  /\ sSuccess' = "absent"
  /\ sPc' = "done"
  /\ UNCHANGED <<sReq, sBill, sCredits>>

BaseCreditOnly(llm) == 1
\* creditsToBeBilled: 1, plus creditsPerLLMExtract in llm-extraction mode
CreditsToBeBilled(llm) == IF llm THEN 1 + 4 ELSE 1

RespondThenBill(success) == IF success THEN <<"respond", "billTeam">> ELSE <<"respond">>
\* if (result.success) { ... billTeam(...).catch(...) } ...
\* return res.status(result.returnCode).json(result)
FinishEvents(success) == IF success THEN <<"billTeam", "respond">> ELSE <<"respond">>

\* The tail of scrapeController once scrapeHelper returned a result.
Finish(success, code, err) ==
  /\ sEvents' = sEvents \o FinishEvents(success)
  /\ sBill' = IF success THEN "pending" ELSE sBill
  /\ sCredits' = IF success THEN CreditsToBeBilled(sReq.llm) ELSE sCredits
  /\ sStatus' = code
  /\ sError' = err
  /\ sSuccess' = IF success THEN "true" ELSE "false"
  /\ sPc' = "done"
  /\ UNCHANGED sReq

\* authenticateUser settled; the forceZDR and extraction-schema checks; the
\* call of checkTeamCredits.
ScrapeAuth(ok) ==
  /\ sPc = "auth"
  /\ UNCHANGED <<sAdmitted, sJobId, sEnqueues, sQueued, sWait>>
  /\ IF ~ok THEN Respond(500, "Internal Server Error")
     ELSE IF ~sReq.authOk THEN Respond(401, "Unauthorized")
     ELSE IF sReq.forceZDR THEN Respond(400, "Zero data retention is not supported on v0")
     ELSE IF sReq.llm /\ ~sReq.schemaOk THEN Respond(400, "extractionSchema must be an object")
     ELSE /\ sPc' = "credits"
          /\ sEvents' = Append(sEvents, "checkTeamCredits")
          /\ UNCHANGED <<sReq, sStatus, sError, sBill, sCredits, sSuccess>>

\* await checkTeamCredits(chunk, team_id, 1)
CreditsRequested == 1

GateErrorIgnored(outcome) == [code |-> 200, error |-> ""]
\* The early return of the credit check: 402 when it denies, 500 when it
\* throws.
GateError(outcome) ==
  IF outcome = "deny" THEN [code |-> 402, error |-> "Insufficient credits"]
  ELSE [code |-> 500, error |-> "Error checking team credits"]

\* const jobId = uuidv4()
FreshJobId == "uuid"

\* checkTeamCredits settled; on admission the job id is drawn and scrapeHelper
\* starts: the URL checks and the call of getJobPriority.
ScrapeCredits(outcome) ==
  /\ sPc = "credits"
  /\ sAdmitted' = IF outcome = "admit" THEN CreditsRequested ELSE sAdmitted
  /\ sJobId' = IF outcome = "admit" THEN FreshJobId ELSE sJobId
  /\ UNCHANGED <<sEnqueues, sQueued, sWait>>
  /\ IF outcome # "admit" THEN Respond(GateError(outcome).code, GateError(outcome).error)
     ELSE IF sReq.url = "invalid" THEN Respond(500, "Invalid URL")
     ELSE IF sReq.url = "blocked" THEN Finish(FALSE, 403, "BLOCKLISTED_URL_MESSAGE")
     ELSE /\ sPc' = "priority"
          /\ UNCHANGED <<sReq, sEvents, sStatus, sError, sBill, sCredits, sSuccess>>

\* The job scrapeHelper hands to addScrapeJob under the id jobId.
ScrapeJob(jobId) == [mode |-> "single_urls", jobId |-> jobId]

\* getJobPriority settled: addScrapeJob is called.
ScrapePriority(ok) ==
  /\ sPc = "priority"
  /\ sEnqueues' = IF ok THEN Append(sEnqueues, ScrapeJob(sJobId)) ELSE sEnqueues
  /\ UNCHANGED <<sAdmitted, sJobId, sQueued, sWait>>
  /\ IF ~ok THEN Respond(500, "Internal Server Error")
     ELSE /\ sPc' = "enqueue"
          /\ sEvents' = Append(sEvents, "addScrapeJob")
          /\ UNCHANGED <<sReq, sStatus, sError, sBill, sCredits, sSuccess>>

\* addScrapeJob settled: waitForJob is called.
ScrapeEnqueued(ok) ==
  /\ sPc = "enqueue"
  /\ sQueued' = ok
  /\ UNCHANGED <<sAdmitted, sJobId, sEnqueues, sWait>>
  /\ IF ~ok THEN Respond(500, "Internal Server Error")
     ELSE /\ sPc' = "wait"
          /\ sEvents' = Append(sEvents, "waitForJob")
          /\ UNCHANGED <<sReq, sStatus, sError, sBill, sCredits, sSuccess>>

WaitOutcomes == {"doc", "nodoc", "timeout", "llm", "throw"}

TimeoutAsServerError(outcome) ==
  [error |-> IF outcome = "timeout" THEN "Request timed out" ELSE "LLM extraction error",
   returnCode |-> 500]
\* The result the catch around waitForJob returns for an error it handles:
\* a timeout ("Job wait ..." or "timeout"), or an LLM error string.
WaitError(outcome) ==
  [error |-> IF outcome = "timeout" THEN "Request timed out" ELSE "LLM extraction error",
   returnCode |-> IF outcome = "timeout" THEN 408 ELSE 500]

\* waitForJob settled: 408 on timeout, 500 on an LLM error string, rethrow
\* of any other error, otherwise the call of remove(jobId).
ScrapeWaited(outcome) ==
  /\ sPc = "wait"
  /\ sWait' = outcome
  /\ UNCHANGED <<sAdmitted, sJobId, sEnqueues, sQueued>>
  /\ IF outcome \in {"timeout", "llm"}
       THEN Finish(FALSE, WaitError(outcome).returnCode, WaitError(outcome).error)
     ELSE IF outcome = "throw" THEN Respond(500, "Internal Server Error")
     ELSE /\ sPc' = IF outcome = "doc" THEN "remove" ELSE "removeNoDoc"
          /\ sEvents' = Append(sEvents, "remove")
          /\ UNCHANGED <<sReq, sStatus, sError, sBill, sCredits, sSuccess>>

\* getScrapeQueue().remove(jobId) settled: the result is a success, with or
\* without a document.
ScrapeRemoved(ok) ==
  /\ sPc \in {"remove", "removeNoDoc"}
  /\ sQueued' = IF ok THEN FALSE ELSE sQueued
  /\ UNCHANGED <<sAdmitted, sJobId, sEnqueues, sWait>>
  /\ IF ~ok THEN Respond(500, "Internal Server Error")
     ELSE Finish(TRUE, 200, IF sPc = "remove" THEN "" ELSE "No page found")

\* The promise of billTeam settles; a rejection is logged by its .catch.
BillSettled(ok) ==
  /\ sBill = "pending"
  /\ sBill' = IF ok THEN "resolved" ELSE "rejected"
  /\ UNCHANGED <<sReq, sPc, sEvents, sStatus, sError, sCredits, sSuccess>>
  /\ UNCHANGED <<sAdmitted, sJobId, sEnqueues, sQueued, sWait>>

ScrapeNext ==
  \/ \E ok \in BOOLEAN : ScrapeAuth(ok)
  \/ \E o \in {"admit", "deny", "throw"} : ScrapeCredits(o)
  \/ \E ok \in BOOLEAN : ScrapePriority(ok)
  \/ \E ok \in BOOLEAN : ScrapeEnqueued(ok)
  \/ \E o \in WaitOutcomes : ScrapeWaited(o)
  \/ \E ok \in BOOLEAN : ScrapeRemoved(ok)
  \/ \E ok \in BOOLEAN : BillSettled(ok)

InitScrape == StreamerInit(0, {NoCrawl}) /\ ScrapeInit /\ OthersIdle

NextScrape == ScrapeNext /\ UNCHANGED <<streamerVars, creditVars, authVars, crawlVars>>

\* One scrape request.
SpecScrape == InitScrape /\ [][NextScrape]_vars

EventIndexes(e) == {i \in 1..Len(sEvents) : sEvents[i] = e}

\* C10 as claimed: billTeam is invoked only after the response has been sent.
C10_BillAfterResponse ==
  \A b \in EventIndexes("billTeam") : \E r \in EventIndexes("respond") : r < b

\* C10 amended: billTeam is invoked, once and for a success only, before the
\* response is sent and without being awaited: the response is sent in the
\* same step, whatever becomes of the bill promise.
C10_BillBeforeResponse ==
  /\ \A b \in EventIndexes("billTeam") : \E r \in EventIndexes("respond") : b < r
  /\ Cardinality(EventIndexes("billTeam")) <= 1
  /\ Cardinality(EventIndexes("respond")) <= 1
  /\ EventIndexes("billTeam") # {} <=> sBill # "none"
  /\ sBill # "none" => sStatus = 200
  /\ sBill = "pending" => sPc = "done"

\* A request was billed and answered while its bill promise later rejected.
C10_Witness ==
  /\ sBill = "rejected"
  /\ sStatus = 200
  /\ EventIndexes("billTeam") # {}

\* C11: the credits passed to billTeam never exceed the credits the request
\* asked of the credit gate in its successful admission.
C11_BilledWithinAdmitted == sCredits <= sAdmitted

\* C12: a request admitted by the credit gate hands exactly one job to
\* addScrapeJob, of mode single_urls and under the request's fresh job id; no
\* request hands over more than one.
C12_ExactlyOneEnqueue ==
  /\ Len(sEnqueues) <= 1
  /\ (sAdmitted > 0 /\ sPc = "done") =>
       /\ Len(sEnqueues) = 1
       /\ sEnqueues[1] = [mode |-> "single_urls", jobId |-> FreshJobId]

\* C13: when waitForJob times out the request is answered 408 with success
\* false and "Request timed out", billTeam is not invoked and remove(jobId)
\* is not called: the job stays in the queue.
C13_TimeoutLeavesJob ==
  sWait = "timeout" =>
    /\ sPc = "done"
    /\ sStatus = 408
    /\ sSuccess = "false"
    /\ sError = "Request timed out"
    /\ EventIndexes("billTeam") = {}
    /\ sBill = "none"
    /\ EventIndexes("remove") = {}
    /\ sQueued

\* A request timed out waiting for its job.
C13_Witness ==
  /\ sWait = "timeout"
  /\ sStatus = 408
  /\ sQueued
  /\ Len(sEnqueues) = 1

C14_Unbilled == EventIndexes("billTeam") = {} /\ sBill = "none" /\ sCredits = 0

Dispatched == EventIndexes("checkTeamCredits") # {}

\* C15: a dispatched request with a blocklisted URL is answered 403 with
\* BLOCKLISTED_URL_MESSAGE, without enqueue and without billing, whatever the
\* credit gate would say of the team.
C15_BlocklistWhateverCredits ==
  (sReq.url = "blocked" /\ Dispatched /\ sPc = "done") =>
    /\ sStatus = 403
    /\ sError = "BLOCKLISTED_URL_MESSAGE"
    /\ sEnqueues = <<>>
    /\ C14_Unbilled

\* The credit gate did not admit the request: it denied, or the check threw.
GateRefused == Dispatched /\ sPc = "done" /\ sAdmitted = 0

\* C16: a request the credit gate denies is answered 402 and one whose
\* credit check throws is answered 500; in both cases nothing is enqueued,
\* no wait starts, remove is not called and billTeam is not invoked.
C16_GateRefusal ==
  /\ sPc = "credits" => sStatus = 0 /\ sEnqueues = <<>> /\ sAdmitted = 0
  /\ GateRefused =>
       /\ \/ sStatus = 402 /\ sError = "Insufficient credits"
          \/ sStatus = 500 /\ sError = "Error checking team credits"
       /\ sSuccess = "absent"
       /\ sEnqueues = <<>>
       /\ EventIndexes("addScrapeJob") = {}
       /\ EventIndexes("waitForJob") = {}
       /\ sWait = ""
       /\ EventIndexes("remove") = {}
       /\ ~sQueued
       /\ C14_Unbilled
  /\ sStatus = 402 => GateRefused

\* The gate denied a request whose URL was fine.
C16_Witness ==
  /\ GateRefused
  /\ sStatus = 402
  /\ sReq.url = "ok"

----------------------------------------------------------------------------
\* The credit gate: one call of supaCheckTeamCredits(chunk, team_id, credits).
\* Every await (getValue, the select on teams, setValue, autoCharge) ends an
\* action; the cache, the table and autoCharge are the environment.

\* Largest adjusted_credits_used and total_credits_sum of a chunk.
MaxCredits == 5

\* Largest number of credits a call asks for.
MaxAsk == 2

PreviewId == <<"p", "r", "e", "v", "i", "e", "w">>

\* preview, preview_a, env_a, and three ids of ordinary teams, two of which
\* begin like a preview id without the underscore.
TeamIds ==
  { PreviewId, PreviewId \o <<"_", "a">>, <<"e", "n", "v", "_", "a">>,
    PreviewId \o <<"a">>, <<"e", "n", "v">>, <<"t", "1">> }

\* String.prototype.startsWith
StartsWith(str, prefix) ==
  Len(str) >= Len(prefix) /\ SubSeq(str, 1, Len(prefix)) = prefix

PreviewExactOnly(team_id) == team_id = PreviewId
\* team_id === "preview" || team_id.startsWith("preview_") ||
\* team_id.startsWith("env_")
IsPreviewTeam(team_id) ==
  \/ team_id = PreviewId
  \/ StartsWith(team_id, PreviewId \o <<"_">>)
  \/ StartsWith(team_id, <<"e", "n", "v", "_">>)

Chunks ==
  {NoChunk} \cup
  [present : {TRUE}, used : 0..MaxCredits, hasTotal : {TRUE}, total : 0..MaxCredits,
   remaining : 0..1, is_extract : BOOLEAN] \cup
  [present : {TRUE}, used : 0..MaxCredits, hasTotal : {FALSE}, total : {0},
   remaining : 0..1, is_extract : BOOLEAN]

\* Rows of table teams: auto_recharge and auto_recharge_threshold.
Configs == {NoConfig} \cup [present : {TRUE}, auto_recharge : BOOLEAN, threshold : 0..1]

\* chunk.total_credits_sum ?? 100000000
DefaultTotal == 100000000

TotalPriceCredits(chunk) == IF chunk.hasTotal THEN chunk.total ELSE DefaultTotal

\* creditUsagePercentage >= 0.8 && creditUsagePercentage < 1, the quotient
\* used / total being Infinity or NaN when total is 0
UsageApproaching(used, total) == total > 0 /\ 10 * used >= 8 * total /\ used < total

DenyWhenEqual(chunk, credits) ==
  LET used == chunk.used
      total == TotalPriceCredits(chunk)
  IN  IF used + credits >= total
        THEN [success |-> FALSE, message |-> "Insufficient credits",
              notes |-> IF used > total THEN <<"LIMIT_REACHED">> ELSE <<>>]
        ELSE [success |-> TRUE, message |-> "Sufficient credits available",
              notes |-> IF UsageApproaching(used, total)
                          THEN <<"APPROACHING_LIMIT">> ELSE <<>>]
\* The comparison of creditsWillBeUsed with totalPriceCredits and the
\* notification that goes with it.
CreditDecision(chunk, credits) ==
  LET used == chunk.used
      total == TotalPriceCredits(chunk)
  IN  IF used + credits > total
        THEN [success |-> FALSE, message |-> "Insufficient credits",
              notes |-> IF used > total THEN <<"LIMIT_REACHED">> ELSE <<>>]
        ELSE [success |-> TRUE, message |-> "Sufficient credits available",
              notes |-> IF UsageApproaching(used, total)
                          THEN <<"APPROACHING_LIMIT">> ELSE <<>>]

\* The cache holds nothing or a copy of the row it was filled from.
CreditInit ==
  /\ cTeam \in TeamIds
  /\ cChunk \in Chunks
  /\ cCredits \in 0..MaxAsk
  /\ cDb \in Configs
  /\ cCache \in {NoConfig, cDb}
  /\ cPc = "call"
  /\ cEnabled = FALSE
  /\ cThreshold = 1000
  /\ cResult = NoResult
  /\ cNotes = <<>>
  /\ cCfgRead = FALSE
  /\ cCharged = FALSE

inputVars == <<cTeam, cChunk, cCredits, cDb>>

Return(success, unlimited, remaining, message) ==
  /\ cPc' = "returned"
  /\ cResult' = [success |-> success, unlimited |-> unlimited, remaining |-> remaining,
                 message |-> message]

\* The final comparison, its notification and its return.
Decide ==
  LET d == CreditDecision(cChunk, cCredits)
  IN  /\ Return(d.success, FALSE, cChunk.remaining, d.message)
      /\ cNotes' = cNotes \o d.notes

\* The configuration is known: autoCharge is called if auto-recharge is
\* enabled, the remaining credits are under the threshold and the call is not
\* an extract; otherwise the comparison follows at once.
AfterConfig(enabled, threshold) ==
  IF enabled /\ cChunk.remaining < threshold /\ ~cChunk.is_extract
    THEN /\ cPc' = "autoCharge"
         /\ cCharged' = TRUE
         /\ UNCHANGED <<cResult, cNotes>>
    ELSE /\ Decide
         /\ UNCHANGED cCharged

\* Entry: the preview check, the null check, the call of getValue(cacheKey).
CheckCall ==
  /\ cPc = "call"
  /\ IF IsPreviewTeam(cTeam)
       THEN /\ Return(TRUE, TRUE, 0, "Preview team, no credits used")
            /\ UNCHANGED cCfgRead
     ELSE IF ~cChunk.present
       THEN /\ cPc' = "threw"
            /\ UNCHANGED <<cResult, cCfgRead>>
     ELSE /\ cPc' = "getValue"
          /\ cCfgRead' = TRUE
          /\ UNCHANGED cResult
  /\ UNCHANGED <<inputVars, cCache, cEnabled, cThreshold, cNotes, cCharged>>

\* getValue settled: cached data is used, otherwise the row is selected.
CheckCached(ok) ==
  /\ cPc = "getValue"
  /\ IF ~ok
       THEN /\ cPc' = "threw"
            /\ UNCHANGED <<cEnabled, cThreshold, cResult, cNotes, cCharged>>
     ELSE IF cCache.present
       THEN /\ cEnabled' = cCache.auto_recharge
            /\ cThreshold' = cCache.threshold
            /\ AfterConfig(cCache.auto_recharge, cCache.threshold)
     ELSE /\ cPc' = "select"
          /\ UNCHANGED <<cEnabled, cThreshold, cResult, cNotes, cCharged>>
  /\ UNCHANGED <<inputVars, cCache, cCfgRead>>

\* The select settled: a row is used and written to the cache, the lack of
\* one leaves the defaults.
CheckSelected(ok) ==
  /\ cPc = "select"
  /\ IF ~ok
       THEN /\ cPc' = "threw"
            /\ UNCHANGED <<cEnabled, cThreshold, cResult, cNotes, cCharged>>
     ELSE IF cDb.present
       THEN /\ cEnabled' = cDb.auto_recharge
            /\ cThreshold' = cDb.threshold
            /\ cPc' = "setValue"
            /\ UNCHANGED <<cResult, cNotes, cCharged>>
     ELSE /\ AfterConfig(cEnabled, cThreshold)
          /\ UNCHANGED <<cEnabled, cThreshold>>
  /\ UNCHANGED <<inputVars, cCache, cCfgRead>>

\* setValue(cacheKey, JSON.stringify(data), 300) settled.
CheckCacheSet(ok) ==
  /\ cPc = "setValue"
  /\ IF ~ok
       THEN /\ cPc' = "threw"
            /\ UNCHANGED <<cCache, cResult, cNotes, cCharged>>
     ELSE /\ cCache' = cDb
          /\ AfterConfig(cEnabled, cThreshold)
  /\ UNCHANGED <<inputVars, cEnabled, cThreshold, cCfgRead>>

\* autoCharge settled: its success is returned with the remaining credits it
\* reports, its failure leads to the comparison.
CheckCharged(outcome, remaining) ==
  /\ cPc = "autoCharge"
  /\ IF outcome = "throw"
       THEN /\ cPc' = "threw"
            /\ UNCHANGED <<cResult, cNotes>>
     ELSE IF outcome = "success"
       THEN /\ Return(TRUE, FALSE, remaining, "Auto-recharge successful")
            /\ UNCHANGED cNotes
     ELSE Decide
  /\ UNCHANGED <<inputVars, cCache, cEnabled, cThreshold, cCfgRead, cCharged>>

CreditNext ==
  \/ CheckCall
  \/ \E ok \in BOOLEAN : CheckCached(ok)
  \/ \E ok \in BOOLEAN : CheckSelected(ok)
  \/ \E ok \in BOOLEAN : CheckCacheSet(ok)
  \/ \E o \in {"success", "failure", "throw"} : \E r \in {cChunk.remaining, MaxCredits} :
       CheckCharged(o, r)

InitCredits == StreamerInit(0, {NoCrawl}) /\ ScrapeIdle /\ CreditInit /\ AuthIdle /\ CrawlIdle

NextCredits == CreditNext /\ UNCHANGED <<streamerVars, scrapeVars, authVars, crawlVars>>

\* One call of supaCheckTeamCredits.
SpecCredits == InitCredits /\ [][NextCredits]_vars

\* The team ids of TeamIds that are preview ids, and the others.
PreviewTeams == {PreviewId, PreviewId \o <<"_", "a">>, <<"e", "n", "v", "_", "a">>}
OrdinaryTeams == TeamIds \ PreviewTeams

\* The call returned what autoCharge reported.
Recharged == cPc = "returned" /\ cResult.message = "Auto-recharge successful"

\* C17: for an ordinary team with a chunk, a check that returns without a
\* successful auto-recharge denies iff used + credits > total, notifies
\* LIMIT_REACHED iff it denies and used > total, notifies APPROACHING_LIMIT
\* iff it admits and 0.8 <= used / total < 1, notifies nothing else, and
\* returns the remaining credits of the chunk.
C17_Decision ==
  (cPc = "returned" /\ cTeam \in OrdinaryTeams /\ cChunk.present /\ ~Recharged) =>
    LET used == cChunk.used
        total == IF cChunk.hasTotal THEN cChunk.total ELSE 100000000
        denies == ~cResult.success
    IN  /\ denies <=> used + cCredits > total
        /\ "LIMIT_REACHED" \in Range(cNotes) <=> (denies /\ used > total)
        /\ "APPROACHING_LIMIT" \in Range(cNotes) <=>
             (~denies /\ 4 * total <= 5 * used /\ used < total)
        /\ Range(cNotes) \subseteq {"LIMIT_REACHED", "APPROACHING_LIMIT"}
        /\ Len(cNotes) <= 1
        /\ ~cResult.unlimited
        /\ cResult.remaining = cChunk.remaining

\* A team at 80 percent of its credits was admitted and notified after an
\* auto-recharge that did not succeed.
C17_Witness ==
  /\ cPc = "returned"
  /\ cTeam \in OrdinaryTeams
  /\ cCharged
  /\ ~Recharged
  /\ cResult.success
  /\ cNotes = <<"APPROACHING_LIMIT">>
  /\ cChunk.used + cCredits = cChunk.total

\* C18: for a preview team id the check admits with unlimited remaining
\* credits, whatever the chunk (also a missing one) and the credits asked,
\* and neither reads the auto-recharge configuration, nor calls autoCharge,
\* nor notifies.
C18_PreviewUnlimited ==
  (cTeam \in PreviewTeams /\ cPc # "call") =>
    /\ cPc = "returned"
    /\ cResult.success
    /\ cResult.unlimited
    /\ ~cCfgRead
    /\ ~cCharged
    /\ cNotes = <<>>

\* preview_a was admitted without a chunk.
C18_Witness ==
  /\ cTeam = PreviewId \o <<"_", "a">>
  /\ ~cChunk.present
  /\ cCredits = MaxAsk
  /\ cPc = "returned"
  /\ cResult.unlimited

----------------------------------------------------------------------------
\* withAuth: the wrapper of checkTeamCredits and billTeam, over the calls of
\* one process.  The bypass branch has no await, so a call is one action.

\* Number of calls of the wrapped functions followed in one process.
MaxCalls == 7

\* process.env.USE_DB_AUTHENTICATION: "true", "false" or unset ("")
DbAuthValues == {"true", "false", ""}

\* process.env.ALLOWED_KEYS ?? "": unset or empty, blank, a key, a padded key
AllowedKeysValues == {<<>>, <<" ">>, <<"k">>, <<" ", "k", " ">>}

\* String.prototype.trim
RECURSIVE Trim(_)
Trim(str) ==
  IF str = <<>> THEN <<>>
  ELSE IF Head(str) = " " THEN Trim(Tail(str))
  ELSE IF str[Len(str)] = " " THEN Trim(SubSeq(str, 1, Len(str) - 1))
  ELSE str

\* !useDbAuthentication && !hasAllowedKeys
Bypassing(env) == env.USE_DB_AUTHENTICATION # "true" /\ ~(Len(Trim(env.ALLOWED_KEYS)) > 0)

AlwaysWarn(count) == TRUE
\* if (warningCount < 5)
ShouldWarn(count) == count < 5

\* { success: true, ...(mockSuccess || {}) } with the mockSuccess of
\* checkTeamCredits and of billTeam
MockSuccess(op) ==
  IF op = "check"
    THEN [success |-> TRUE, message |-> "No DB, bypassed", unlimited |-> TRUE, threw |-> FALSE]
    ELSE [success |-> TRUE, message |-> "No DB, bypassed.", unlimited |-> FALSE, threw |-> FALSE]

\* What originalFunction can come to: supaCheckTeamCredits admits, denies or
\* throws; queueBillingOperation queues, fails or throws.
RealResults(op) ==
  { [success |-> b, message |-> IF op = "check" THEN "checked" ELSE "Billing operation queued",
     unlimited |-> FALSE, threw |-> FALSE] : b \in BOOLEAN } \cup
  { [success |-> FALSE, message |-> "", unlimited |-> FALSE, threw |-> TRUE] }

AuthInit ==
  /\ aEnv \in [USE_DB_AUTHENTICATION : DbAuthValues, ALLOWED_KEYS : AllowedKeysValues]
  /\ warningCount = 0
  /\ aWarned = 0
  /\ aCalls = 0
  /\ aReal = 0
  /\ aOp = "none"
  /\ aResult = NoReturn

\* One call of withAuth(originalFunction, mockSuccess)(...args).
AuthCall(op, real) ==
  /\ aCalls < MaxCalls
  /\ aCalls' = aCalls + 1
  /\ aOp' = op
  /\ IF Bypassing(aEnv)
       THEN /\ warningCount' = IF ShouldWarn(warningCount) THEN warningCount + 1
                                ELSE warningCount
            /\ aWarned' = IF ShouldWarn(warningCount) THEN aWarned + 1 ELSE aWarned
            /\ aResult' = MockSuccess(op)
            /\ UNCHANGED aReal
       ELSE /\ aReal' = aReal + 1
            /\ aResult' = real
            /\ UNCHANGED <<warningCount, aWarned>>
  /\ UNCHANGED aEnv

checkTeamCredits == \E real \in RealResults("check") : AuthCall("check", real)

billTeam == \E real \in RealResults("bill") : AuthCall("bill", real)

AuthNext == checkTeamCredits \/ billTeam

InitAuth == StreamerInit(0, {NoCrawl}) /\ ScrapeIdle /\ CreditIdle /\ AuthInit /\ CrawlIdle

NextAuth == AuthNext /\ UNCHANGED <<streamerVars, scrapeVars, creditVars, crawlVars>>

\* The calls of checkTeamCredits and billTeam of one process.
SpecAuth == InitAuth /\ [][NextAuth]_vars

\* Neither DB authentication nor a non-empty allow-list is configured.
NothingConfigured ==
  /\ aEnv.USE_DB_AUTHENTICATION \in {"false", ""}
  /\ aEnv.ALLOWED_KEYS \in {<<>>, <<" ">>}

\* C19: with neither DB authentication nor a non-empty allow-list, every call
\* of checkTeamCredits and of billTeam returns the synthetic success and
\* originalFunction is never called; warningCount never decreases and never
\* exceeds 5, and no more than 5 warnings are logged.
C19_BypassBounded ==
  /\ []((NothingConfigured /\ aCalls > 0) =>
          /\ aReal = 0
          /\ aResult.success /\ ~aResult.threw
          /\ aOp = "check" => aResult.message = "No DB, bypassed" /\ aResult.unlimited
          /\ aOp = "bill" => aResult.message = "No DB, bypassed.")
  /\ [](warningCount <= 5 /\ aWarned <= 5)
  /\ [][warningCount' >= warningCount]_vars

\* More than 5 calls were bypassed and the counter stands at 5.
C19_Witness ==
  /\ NothingConfigured
  /\ aCalls = MaxCalls
  /\ aOp = "bill"
  /\ warningCount = 5
  /\ aWarned = 5

----------------------------------------------------------------------------
\* The v1 crawl kickoff: crawlController, one request.  The crawl log, the
\* crawler's robots.txt fetch, the crawl store and the queue are the
\* environment.

\* Patterns of includePaths and excludePaths: one that compiles, two that
\* do not.
PathLists == {<<>>, <<"a">>, <<"(">>, <<"a", "[">>, <<"(", "[">>}

CrawlRequests ==
  [zeroDataRetention : BOOLEAN, allowZDR : BOOLEAN, forceZDR : BOOLEAN,
   includePaths : PathLists, excludePaths : PathLists, limit : {1, 3},
   maxConcurrency : {{}, {1}, {3}}, delay : {{}, {0}, {1}},
   useDb : BOOLEAN, remaining : {{}, {2}}, concurrency : {{}, {2}}]

AcceptAnyPattern(x) == ""
\* new RegExp(x): the message of the SyntaxError it throws, "" if it compiles
RegExpError(x) ==
  IF x = "(" THEN "Invalid regular expression: /(/: Unterminated group"
  ELSE IF x = "[" THEN "Invalid regular expression: /[/: Unterminated character class"
  ELSE ""

\* for (const x of paths) { try { new RegExp(x) } catch (e) { return ... } }:
\* the message of the first pattern that does not compile, "" if all do
RECURSIVE FirstRegExpError(_)
FirstRegExpError(paths) ==
  IF paths = <<>> THEN ""
  ELSE IF RegExpError(Head(paths)) # "" THEN RegExpError(Head(paths))
  ELSE FirstRegExpError(Tail(paths))

RequestedLimit(req) == req.limit
\* Math.min(remainingCredits, crawlerOptions.limit), remainingCredits being
\* req.account?.remainingCredits ?? Infinity under DB authentication and
\* Infinity otherwise
ClampLimit(req) ==
  IF req.useDb /\ req.remaining # {} /\ (CHOOSE n \in req.remaining : TRUE) < req.limit
    THEN CHOOSE n \in req.remaining : TRUE
    ELSE req.limit

\* maxConcurrency of sc: the smaller of the request's and the team's when
\* both are defined, the request's when only it is, undefined otherwise
MaxConcurrency(req) ==
  IF req.maxConcurrency # {}
    THEN IF req.concurrency # {}
           THEN {IF (CHOOSE n \in req.maxConcurrency : TRUE) < (CHOOSE m \in req.concurrency : TRUE)
                   THEN CHOOSE n \in req.maxConcurrency : TRUE
                   ELSE CHOOSE m \in req.concurrency : TRUE}
           ELSE req.maxConcurrency
    ELSE {}

\* const id = uuidv4()
CrawlId == "crawl-uuid"

\* The StoredCrawl built from the request, before robots.txt, with the id it
\* is handed to crawlToCrawler and saveCrawl under.
BuildSc(req) ==
  [exists |-> TRUE, id |-> CrawlId, limit |-> ClampLimit(req), maxConcurrency |-> MaxConcurrency(req),
   delay |-> req.delay, zeroDataRetention |-> req.forceZDR \/ req.zeroDataRetention,
   robots |-> ""]

\* if (robotsCrawlDelay !== null && !sc.crawlerOptions.delay): an undefined
\* delay and a delay of 0 are both falsy
AdoptRobotsDelay(delay, robotsCrawlDelay) ==
  IF robotsCrawlDelay # {} /\ (delay = {} \/ delay = {0}) THEN robotsCrawlDelay ELSE delay

\* The job handed to _addScrapeJobToBullMQ, at priority 10.
KickoffJob(req, sc) ==
  [mode |-> "kickoff", crawl_id |-> CrawlId, limit |-> ClampLimit(req),
   zeroDataRetention |-> sc.zeroDataRetention, priority |-> 10]

CrawlInit ==
  /\ kReq \in CrawlRequests
  /\ kPc = "start"
  /\ kSc = NoSc
  /\ kRobots = NoRobots
  /\ kStored = NoSc
  /\ kKickoffs = <<>>
  /\ kLogged = FALSE
  /\ kStatus = 0
  /\ kBody = NoBody

\* return res.status(code).json({ success, error }) or, for 200, { success, id, url }
CrawlRespond(code, success, error) ==
  /\ kStatus' = code
  /\ kBody' = [success |-> success, error |-> error, id |-> IF success THEN CrawlId ELSE ""]
  /\ kPc' = "done"

\* An error leaves crawlController: no response is sent by it.
CrawlThrow == kPc' = "threw" /\ UNCHANGED <<kStatus, kBody>>

\* Entry: the schema parse, the zero-data-retention check, the call of logCrawl.
CrawlStart(parsed) ==
  /\ kPc = "start"
  /\ IF ~parsed THEN CrawlThrow /\ UNCHANGED kLogged
     ELSE IF kReq.zeroDataRetention /\ ~kReq.allowZDR
       THEN /\ CrawlRespond(400, FALSE, "Zero data retention is enabled for this team")
            /\ UNCHANGED kLogged
     ELSE /\ kPc' = "logCrawl"
          /\ kLogged' = TRUE
          /\ UNCHANGED <<kStatus, kBody>>
  /\ UNCHANGED <<kReq, kSc, kRobots, kStored, kKickoffs>>

\* logCrawl settled: the two pattern loops, the limit, sc, the crawler and the
\* call of getRobotsTxt.
CrawlLogged(ok) ==
  /\ kPc = "logCrawl"
  /\ IF ~ok THEN CrawlThrow /\ UNCHANGED kSc
     ELSE IF FirstRegExpError(kReq.includePaths) # ""
       THEN /\ CrawlRespond(400, FALSE, FirstRegExpError(kReq.includePaths))
            /\ UNCHANGED kSc
     ELSE IF FirstRegExpError(kReq.excludePaths) # ""
       THEN /\ CrawlRespond(400, FALSE, FirstRegExpError(kReq.excludePaths))
            /\ UNCHANGED kSc
     ELSE /\ kSc' = BuildSc(kReq)
          /\ kPc' = "robots"
          /\ UNCHANGED <<kStatus, kBody>>
  /\ UNCHANGED <<kReq, kRobots, kStored, kKickoffs, kLogged>>

\* What getRobotsTxt and getRobotsCrawlDelay come to: a rejection, or a
\* robots.txt without a crawl delay (null), with one of 0 or with one of 2.
RobotsOutcomes ==
  {[failed |-> TRUE, delay |-> {}]} \cup [failed : {FALSE}, delay : {{}, {0}, {2}}]

\* getRobotsTxt settled, its failure being caught and logged: saveCrawl is
\* called.
CrawlRobots(robots) ==
  /\ kPc = "robots"
  /\ kSc' = IF robots.failed THEN kSc
            ELSE [kSc EXCEPT !.robots = "robots.txt",
                             !.delay = AdoptRobotsDelay(kSc.delay, robots.delay)]
  /\ kRobots' = [settled |-> TRUE, failed |-> robots.failed, delay |-> robots.delay]
  /\ kPc' = "saveCrawl"
  /\ UNCHANGED <<kReq, kStored, kKickoffs, kLogged, kStatus, kBody>>

KickoffDespiteFailure(ok) ==
  /\ kPc = "saveCrawl"
  /\ kStored' = IF ok THEN kSc ELSE kStored
  /\ kPc' = "kickoff"
  /\ UNCHANGED <<kReq, kSc, kRobots, kKickoffs, kLogged, kStatus, kBody>>
\* saveCrawl settled: the kickoff job is handed to _addScrapeJobToBullMQ.
CrawlSaved(ok) ==
  /\ kPc = "saveCrawl"
  /\ IF ~ok THEN CrawlThrow /\ UNCHANGED kStored
     ELSE /\ kStored' = kSc
          /\ kPc' = "kickoff"
          /\ UNCHANGED <<kStatus, kBody>>
  /\ UNCHANGED <<kReq, kSc, kRobots, kKickoffs, kLogged>>

\* _addScrapeJobToBullMQ settled: the response carries the crawl id.
CrawlKicked(ok) ==
  /\ kPc = "kickoff"
  /\ IF ~ok THEN CrawlThrow /\ UNCHANGED kKickoffs
     ELSE /\ kKickoffs' = Append(kKickoffs, KickoffJob(kReq, kSc))
          /\ CrawlRespond(200, TRUE, "")
  /\ UNCHANGED <<kReq, kSc, kRobots, kStored, kLogged>>

CrawlNext ==
  \/ \E parsed \in BOOLEAN : CrawlStart(parsed)
  \/ \E ok \in BOOLEAN : CrawlLogged(ok)
  \/ \E robots \in RobotsOutcomes : CrawlRobots(robots)
  \/ \E ok \in BOOLEAN : CrawlSaved(ok)
  \/ \E ok \in BOOLEAN : CrawlKicked(ok)

InitCrawl == StreamerInit(0, {NoCrawl}) /\ ScrapeIdle /\ CreditIdle /\ AuthIdle /\ CrawlInit

NextCrawl == CrawlNext /\ UNCHANGED <<streamerVars, scrapeVars, creditVars, authVars>>

\* One crawl request.
SpecCrawl == InitCrawl /\ [][NextCrawl]_vars

\* The request asks for zero data retention and the team lacks allowZDR.
ZdrConflict == kReq.zeroDataRetention /\ ~kReq.allowZDR

\* The patterns of the request that do not compile, with their messages.
BadPatterns == {"(", "["}
SyntaxErrors ==
  { "Invalid regular expression: /(/: Unterminated group",
    "Invalid regular expression: /[/: Unterminated character class" }
BadPaths ==
  \/ \E i \in 1..Len(kReq.includePaths) : kReq.includePaths[i] \in BadPatterns
  \/ \E i \in 1..Len(kReq.excludePaths) : kReq.excludePaths[i] \in BadPatterns

\* C20: a crawl request that asks for zero data retention without allowZDR,
\* or with an includePaths or excludePaths entry that does not compile, is
\* answered 400, in the second case with the message of the regular
\* expression error; no crawl record is saved and no kickoff job enqueued.
C20_RejectedBeforePersist ==
  (ZdrConflict \/ BadPaths) =>
    /\ kStored = NoSc
    /\ kKickoffs = <<>>
    /\ kPc \in {"start", "logCrawl", "done", "threw"}
    /\ kPc = "done" =>
         /\ kStatus = 400
         /\ ~kBody.success
         /\ ~ZdrConflict => kBody.error \in SyntaxErrors
    /\ ZdrConflict => ~kLogged

\* A request with a pattern that does not compile was answered 400.
C20_Witness ==
  /\ BadPaths
  /\ ~ZdrConflict
  /\ kPc = "done"
  /\ kStatus = 400
  /\ kLogged

\* The request was accepted: the controller answered 200.
Accepted == kPc = "done" /\ kStatus = 200

\* The one element of a singleton
The(set) == CHOOSE n \in set : TRUE

\* C21: the stored crawl of an accepted request has the limit
\* min(remaining credits, requested limit), the remaining credits being the
\* account's under DB authentication when present and unlimited otherwise;
\* exactly one job is enqueued for it, of mode kickoff, at priority 10 and
\* with the crawl id, and no request enqueues more than one.
C21_ClampedLimitOneKickoff ==
  /\ Len(kKickoffs) <= 1
  /\ Accepted =>
       LET limited == kReq.useDb /\ kReq.remaining # {}
       IN  /\ kStored.exists
           /\ limited /\ The(kReq.remaining) <= kReq.limit => kStored.limit = The(kReq.remaining)
           /\ limited /\ The(kReq.remaining) >= kReq.limit => kStored.limit = kReq.limit
           /\ ~limited => kStored.limit = kReq.limit
           /\ Len(kKickoffs) = 1
           /\ kKickoffs[1].mode = "kickoff"
           /\ kKickoffs[1].priority = 10
           /\ kKickoffs[1].crawl_id = kStored.id
           /\ kBody.id = kStored.id

\* A request for more pages than the account has credits was accepted.
C21_Witness ==
  /\ Accepted
  /\ kReq.useDb
  /\ kReq.remaining = {2}
  /\ kReq.limit = 3
  /\ kStored.limit = 2
  /\ Len(kKickoffs) = 1

\* C22: the maxConcurrency of the stored crawl is the smaller of the
\* request's maxConcurrency and the team's concurrency when both are present,
\* the one that is present when only one is, and unset when neither is.
C22_MaxConcurrencyResolved ==
  kStored.exists =>
    LET asked == kReq.maxConcurrency
        cap == kReq.concurrency
    IN  /\ (asked # {} /\ cap # {}) =>
             kStored.maxConcurrency = {IF The(asked) < The(cap) THEN The(asked) ELSE The(cap)}
        /\ (asked # {} /\ cap = {}) => kStored.maxConcurrency = asked
        /\ (asked = {} /\ cap # {}) => kStored.maxConcurrency = cap
        /\ (asked = {} /\ cap = {}) => kStored.maxConcurrency = {}

\* C23: the delay of the stored crawl is the robots crawl delay iff the user
\* set no delay and robots gave a positive value; in every other case (a
\* robots value of 0, a delay set by the user, a failed robots fetch) it is
\* the user's delay as it was.
C23_RobotsDelayAdopted ==
  kStored.exists =>
    LET adopted == /\ kReq.delay = {}
                   /\ ~kRobots.failed
                   /\ kRobots.delay # {}
                   /\ \A d \in kRobots.delay : d > 0
    IN  kStored.delay = IF adopted THEN kRobots.delay ELSE kReq.delay

\* The user's delay of 0 was replaced by the crawl delay of robots.txt.
UserZeroDelayOverwritten ==
  kStored.exists /\ kReq.delay = {0} /\ kRobots.delay = {2} /\ kStored.delay = {2}

\* C26: every kickoff job on the queue refers to a crawl record that is
\* already persisted under the job's crawl id; a request whose saveCrawl
\* failed has enqueued nothing; after a failed robots fetch the controller
\* goes on to saveCrawl and to the enqueue, and a response it then sends is
\* the 200 of a persisted and kicked-off crawl.
C26_KickoffAfterPersist ==
  /\ \A i \in 1..Len(kKickoffs) :
       kStored.exists /\ kStored.id = kKickoffs[i].crawl_id
  /\ (kPc = "threw" /\ ~kStored.exists) => kKickoffs = <<>>
  /\ (kRobots.settled /\ kRobots.failed) =>
       /\ kPc \in {"saveCrawl", "kickoff", "done", "threw"}
       /\ kPc = "done" => kStatus = 200 /\ kStored.exists /\ Len(kKickoffs) = 1

\* A crawl whose robots fetch failed was persisted and kicked off.
C26_Witness ==
  /\ kRobots.failed
  /\ kPc = "done"
  /\ kStored.exists
  /\ Len(kKickoffs) = 1
  /\ kKickoffs[1].crawl_id = kStored.id

\* C24: the length of doneJobIDs a poll iteration reads (for the comparison
\* with jobIDs.length and the filter) is never smaller than the length the
\* iteration before it read.
C24_DoneLengthMonotonic ==
  [][(pcL = "getCrawlJobs" /\ pcL' \in {"getJobStates", "ended"}) =>
       Len(doneJobIDs) >= lpSeen]_vars

\* The child jobs the claim has the catchup frame count, and the state each
\* is reported with, from what the catch-up path has read.
IncludedJobs ==
  {j \in Range(cuJobIDs) : j \in cuThrottled \/ cuStatuses[j] \notin {"failed", "unknown"}}
ReportedState(j) == IF j \in cuThrottled THEN "prioritized" ELSE cuStatuses[j]
ClaimedStatus ==
  IF crawl.cancelled THEN "cancelled"
  ELSE IF \A j \in IncludedJobs : ReportedState(j) = "completed" THEN "completed"
  ELSE "scraping"

\* The fields of the catchup frame are evaluated; the frame is put on the socket.
FrameEvaluated == pcC = "getDoneJobs" /\ pcC' = "getExpiry"
FrameSent == pcC = "getExpiry" /\ pcC' = "sent" /\ frames' # frames

\* C25 without its clause on completed: a job is counted iff it is throttled
\* or its state is neither failed nor unknown, total and creditsUsed are the
\* number of counted jobs, status is cancelled, completed or scraping as
\* claimed, and the frame sent carries these values.
CatchupFrameCounts ==
  /\ FrameEvaluated => cuTotal' = Cardinality(IncludedJobs) /\ cuStatus = ClaimedStatus
  /\ FrameSent =>
       LET f == frames'[Len(frames')]
       IN  /\ f.type = "catchup"
           /\ f.status = cuStatus
           /\ f.total = cuTotal /\ f.creditsUsed = cuTotal
           /\ f.completed = cuCompleted

CatchupFrameCountsAlways == [][CatchupFrameCounts]_vars

\* C25: the catchup frame counts the jobs that are throttled or neither
\* failed nor unknown in total and creditsUsed, gives as completed the length
\* of the done list loaded from the store, and has the status cancelled for a
\* cancelled crawl, else completed if every counted job is reported
\* completed, else scraping.
C25_CatchupFrameComputed ==
  [][/\ CatchupFrameCounts
     /\ FrameEvaluated => cuCompleted' = Len(cuDoneRead)]_vars

====
